---- MODULE Spec2Model ----
(***************************************************************************)
(* Model of etl_scripts/from_staging_to_dwh.py: the full-refresh load of   *)
(* the warehouse tables Dim_Subject, Fact_Homeworks, Fact_Lessons,         *)
(* Fact_Sales, Dim_Student and Dim_Teacher from the parquet snapshot       *)
(* batches of the staging store.                                           *)
(*                                                                         *)
(* A load function is a sequence of steps, one per call of                 *)
(* execute_clickhouse_query: the step holds all the code that runs up to   *)
(* and including that call and, when the function returns right after it,  *)
(* the return.                                                             *)
(***************************************************************************)
EXTENDS Integers, Sequences, FiniteSets, TLC

VARIABLES
    s3,           \* prefix -> the batches under it, in sorted key order
    tables,       \* warehouse table -> its rows, in insertion order
    writes,       \* warehouse table -> outcomes of the queries issued on it
    result,       \* load_results, per table
    pc,           \* "main", the table being loaded, "results" or "done"
    cursor,       \* 0 at a load function's entry, else the row to emit next
    frame,        \* the rows the running load iterates over
    refReads,     \* reference prefix -> listings done by the running load
    exit_status   \* what main returns (-1 while it runs)

vars == <<s3, tables, writes, result, pc, cursor, frame, refReads, exit_status>>

----------------------------------------------------------------------------
(* Bounds of the model *)

MaxKey == 2       \* natural keys are 1..MaxKey
MaxT == 3         \* timestamps are 1..MaxT
MaxRecs == 2      \* records of one entity type over all its batches
MaxRunRows == 2   \* records per entity type in a whole run

(* Values *)

NaT == 0              \* a missing timestamp (NaN / NaT / None)
NaTDate == -1         \* the date of NaT (NaT.date() is NaT)
TicksPerDay == 2      \* timestamps per calendar day
FutureDate == 99      \* datetime(2099, 12, 31).date()
Today == 50           \* datetime.now().date()
NoValue == 0          \* the default of safe_int: an absent or NaN key

NaN == "nan"                \* a missing value of a text column
NoColumn == "no column"     \* row.get(col) of a column the frame lacks
Statuses == {"active", "inactive"}

Keys == 1..MaxKey
Times == 1..MaxT

\* pd.to_datetime(t).date()
DateOf(t) == (t + TicksPerDay - 1) \div TicksPerDay

Tables == <<"Dim_Subject", "Fact_Homeworks", "Fact_Lessons", "Fact_Sales",
            "Dim_Student", "Dim_Teacher">>
TableSet == {Tables[i] : i \in 1..Len(Tables)}
DimTables == {"Dim_Student", "Dim_Teacher"}
Prefixes == {"subjects", "homeworks", "lessons", "teacher_subjects",
             "students_purchases", "students", "teachers", "users"}
RefPrefixes == {"lessons", "teacher_subjects"}

\* the staging prefix a dimension is built from
EntityPrefix(t) == IF t = "Dim_Student" THEN "students" ELSE "teachers"

\* the table run_all_loads loads after t
NextTable(t) ==
    LET i == CHOOSE k \in 1..Len(Tables) : Tables[k] = t
    IN IF i = Len(Tables) THEN "results" ELSE Tables[i + 1]

\* the rows a table holds before the run
StaleRow == [stale |-> TRUE]

SeqsUpTo(S, n) == UNION {[1..k -> S] : k \in 0..n}

\* the value of column col in a record of a concatenated frame: missing
\* when the record's batch does not have the column
Get(rec, col, missing) == IF col \in DOMAIN rec THEN rec[col] ELSE missing

\* col in df.columns, for the concatenation df of the records
HasColumn(recs, col) == \E i \in 1..Len(recs) : col \in DOMAIN recs[i]

\* safe_str(value): '' for a missing value
safe_str(value) == IF value = NaN THEN "" ELSE value

----------------------------------------------------------------------------
(* The staging store *)

\* list_s3_files: the keys under a prefix, sorted.  A listing that fails
\* returns [] and a read that fails returns an empty frame, so a prefix
\* whose listing fails is a prefix without batches here, and a batch whose
\* read fails is an empty batch
list_s3_files(prefix) == s3[prefix]

\* the loop "for file_key in files: df = read(...); if not df.empty: concat"
RECURSIVE Concat(_)
Concat(batches) ==
    IF batches = <<>> THEN <<>> ELSE Head(batches) \o Concat(Tail(batches))

----------------------------------------------------------------------------
(* load_dim_student / load_dim_teacher: the merged change history *)

Max2(a, b) == IF a >= b THEN a ELSE b
SetMax(S) == CHOOSE x \in S : \A y \in S : y <= x
SetMin(S) == CHOOSE x \in S : \A y \in S : x <= y

\* DataFrame.max(axis=1) over the two updated_at columns: NaT is skipped,
\* and the result is NaT when both are
RowMax(a, b) ==
    IF a = NaT THEN b ELSE IF b = NaT THEN a ELSE Max2(a, b)

\* JoinOne as an inner join: an entity record without user record is lost
JoinOne_Inner(e, users) ==
    LET m == SelectSeq(users, LAMBDA u : u.user_id = e.user_id)
    IN [k \in 1..Len(m) |->
          [id |-> e.id, user_id |-> e.user_id,
           updated_at_entity |-> e.updated_at,
           updated_at_user |-> m[k].updated_at,
           status_entity |-> Get(e, "status", NaN),
           status_user |-> Get(m[k], "status", NaN)]]

\* the rows one entity record becomes in merge(how='left') on user_id: one
\* per user record of that user_id, in the users' order, or one with no
\* user columns when there is none
JoinOne(e, users) ==
    LET m == SelectSeq(users, LAMBDA u : u.user_id = e.user_id)
    IN IF m = <<>>
       THEN << [id |-> e.id, user_id |-> e.user_id,
                updated_at_entity |-> e.updated_at, updated_at_user |-> NaT,
                status_entity |-> Get(e, "status", NaN), status_user |-> NaN] >>
       ELSE [k \in 1..Len(m) |->
               [id |-> e.id, user_id |-> e.user_id,
                updated_at_entity |-> e.updated_at,
                updated_at_user |-> m[k].updated_at,
                status_entity |-> Get(e, "status", NaN),
                status_user |-> Get(m[k], "status", NaN)]]

\* all_students.merge(all_users[...], on user_id, how='left'): the left
\* order is kept
RECURSIVE MergeUsers(_, _)
MergeUsers(entities, users) ==
    IF entities = <<>> THEN <<>>
    ELSE JoinOne(Head(entities), users) \o MergeUsers(Tail(entities), users)

\* the valid_from column
ValidFrom(r) == RowMax(r.updated_at_entity, r.updated_at_user)

\* groupby(id)['valid_from'].max(): NaT is skipped, NaT when the group has
\* no other value
GroupMax(rows, id) ==
    LET real == {ValidFrom(rows[j]) : j \in {k \in 1..Len(rows) : rows[k].id = id}}
                \ {NaT}
    IN IF real = {} THEN NaT ELSE SetMax(real)

\* (valid_from == max_updated_at).astype(int): NaT equals nothing
IsCurrent(vf, mx) == IF vf # NaT /\ vf = mx THEN 1 ELSE 0

\* the column 'status' of the merged frame.  The merge is given the
\* users' status column and suffixes=('_student', '_user'): when the entity
\* frame has a status column too, the two become status_student and
\* status_user and the merged frame has no column 'status'; when it has
\* none, the users' column keeps its name
StatusColumn(entities, r) ==
    IF HasColumn(entities, "status") THEN NoColumn ELSE r.status_user

\* the frame the insert loop iterates over
MergedHistory(entities, users) ==
    LET rows == MergeUsers(entities, users)
    IN [j \in 1..Len(rows) |->
          [id |-> rows[j].id,
           user_id |-> rows[j].user_id,
           updated_at_entity |-> rows[j].updated_at_entity,
           updated_at_user |-> rows[j].updated_at_user,
           status |-> StatusColumn(entities, rows[j]),
           valid_from |-> ValidFrom(rows[j]),
           is_current |-> IsCurrent(ValidFrom(rows[j]), GroupMax(rows, rows[j].id))]]

(* load_dim_student / load_dim_teacher: valid_to of one row *)

\* same_id_records: the labels (positions in the frame) of the rows of a key
SameId(fr, id) == {j \in 1..Len(fr) : fr[j].id = id}

\* the labels sort_values('valid_from') may put first among the rows whose
\* valid_from equals the row's: the sort is not stable, so any of them
FirstOfTies(ties) == ties

\* next_records.iloc[0]['valid_from']: the rows are sorted by valid_from
\* with NaT last, so it is the least valid_from, NaT when all are NaT
FirstValidFrom(fr, labels) ==
    LET real == {fr[j].valid_from : j \in labels} \ {NaT}
    IN IF real = {} THEN NaT ELSE SetMin(real)

\* next_records = same_id_records[same_id_records.index > current_idx]:
\* the rows of the key whose LABEL is greater than current_idx
NextRecords(fr, id, current_idx) == {j \in SameId(fr, id) : j > current_idx}

\* valid_to given current_idx
ValidToAfter(fr, id, current_idx) ==
    LET next == NextRecords(fr, id, current_idx)
    IN IF next = {} THEN FutureDate
       ELSE IF FirstValidFrom(fr, next) = NaT THEN NaTDate
       ELSE DateOf(FirstValidFrom(fr, next)) - 1

\* the values valid_to can take for row i of the frame
ValidToSet(fr, i) ==
    LET row == fr[i]
        ties == {j \in SameId(fr, row.id) :
                    row.valid_from # NaT /\ fr[j].valid_from = row.valid_from}
    IN IF row.is_current = 1 THEN {FutureDate}
       ELSE IF ties = {} THEN {FutureDate}
       ELSE {ValidToAfter(fr, row.id, c) : c \in FirstOfTies(ties)}

\* safe_datetime_to_date(valid_from), today when it is None
ValidFromDate(vf) == IF vf = NaT THEN Today ELSE DateOf(vf)

\* safe_str(row.get('status', 'active')): the default of get is taken when
\* the row has no 'status' entry
DimStatus(r) ==
    IF r.status = NoColumn THEN "active" ELSE safe_str(r.status)

\* insert_params of row i
DimRow(fr, i, valid_to) ==
    [nk |-> fr[i].id,
     status |-> DimStatus(fr[i]),
     valid_from |-> ValidFromDate(fr[i].valid_from),
     valid_to |-> valid_to,
     is_current |-> fr[i].is_current,
     updated_at |-> fr[i].valid_from]

----------------------------------------------------------------------------
(* The warehouse client and the control flow shared by the loads *)

\* execute_clickhouse_query: True, or False on a ClickhouseError
Outcomes == {"ok", "err"}

\* the query log of table t with one more outcome
Issued(t, o) == [writes EXCEPT ![t] = Append(@, o)]

NoReads == [p \in RefPrefixes |-> 0]

\* "return True" / "return False" of the load of t: run_all_loads stores it
\* in load_results and calls the next load
Return(t, r) ==
    /\ result' = [result EXCEPT ![t] = r]
    /\ pc' = NextTable(t)
    /\ cursor' = 0
    /\ UNCHANGED exit_status

\* an exception leaves the load of t and run_all_loads; main catches it
Raise(t) ==
    /\ result' = [result EXCEPT ![t] = "raised"]
    /\ pc' = "done"
    /\ cursor' = 0
    /\ exit_status' = 1

\* what follows a successful insert of row `cursor`: the next row, or the
\* end of the loop and "return True"
Advance(t) ==
    IF cursor = Len(frame)
    THEN Return(t, "ok")
    ELSE /\ cursor' = cursor + 1
         /\ UNCHANGED <<result, pc, exit_status>>

\* InsertFailed with the result of the query ignored: the loop goes on
InsertFailed_Ignored(t) ==
    /\ Advance(t)
    /\ UNCHANGED tables

\* "if not execute_clickhouse_query(query, params): return False"
InsertFailed(t) ==
    /\ Return(t, "failed")
    /\ UNCHANGED tables

----------------------------------------------------------------------------
(* load_dim_student / load_dim_teacher *)

\* from the function's entry to TRUNCATE TABLE
load_dim_begin(t) ==
    /\ pc = t
    /\ cursor = 0
    /\ refReads' = NoReads
    /\ UNCHANGED s3
    /\ LET files == list_s3_files(EntityPrefix(t))
           all_entities == Concat(files)
           all_users == Concat(list_s3_files("users"))
       IN IF files = <<>> \/ all_entities = <<>>
          THEN \* "No files found" / "No ... data found": return True
               /\ Return(t, "ok")
               /\ UNCHANGED <<tables, writes, frame>>
          ELSE IF all_users = <<>>
          THEN \* no merge, so no valid_from column: groupby raises KeyError
               /\ Raise(t)
               /\ frame' = <<>>
               /\ UNCHANGED <<tables, writes>>
          ELSE \E o \in Outcomes :
               /\ writes' = Issued(t, o)
               /\ frame' = MergedHistory(all_entities, all_users)
               /\ IF o = "err"
                  THEN /\ Return(t, "failed")
                       /\ UNCHANGED tables
                  ELSE /\ tables' = [tables EXCEPT ![t] = <<>>]
                       /\ IF MergedHistory(all_entities, all_users) = <<>>
                          THEN Return(t, "ok")
                          ELSE /\ cursor' = 1
                               /\ UNCHANGED <<result, pc, exit_status>>

\* one pass of "for _, row in all_students.iterrows()"
load_dim_row(t) ==
    /\ pc = t
    /\ cursor >= 1
    /\ UNCHANGED <<s3, frame, refReads>>
    /\ \E valid_to \in ValidToSet(frame, cursor), o \in Outcomes :
       /\ writes' = Issued(t, o)
       /\ IF o = "ok"
          THEN /\ tables' = [tables EXCEPT
                                ![t] = Append(@, DimRow(frame, cursor, valid_to))]
               /\ Advance(t)
          ELSE InsertFailed(t)

load_dim_student_begin == load_dim_begin("Dim_Student")
load_dim_student_row == load_dim_row("Dim_Student")
load_dim_teacher_begin == load_dim_begin("Dim_Teacher")
load_dim_teacher_row == load_dim_row("Dim_Teacher")

----------------------------------------------------------------------------
(* Key resolution of the fact loads *)

\* df[df[col] == v]
Matching(batch, col, v) == SelectSeq(batch, LAMBDA r : r[col] = v)

\* "for f in files: df = read(f); match = df[df[col] == v]; if not
\* match.empty: ... match.iloc[0] ...; break": the first matching row of the
\* first batch that has one, as a sequence of at most one row
RECURSIVE FirstMatch(_, _, _)
FirstMatch(batches, col, v) ==
    IF batches = <<>> THEN <<>>
    ELSE IF Matching(Head(batches), col, v) # <<>>
    THEN <<Head(Matching(Head(batches), col, v))>>
    ELSE FirstMatch(Tail(batches), col, v)

\* HomeworkKeys with a failed teacher_subject hop leaving the key it looked up
HomeworkKeys_KeepKey(row) ==
    LET lesson == FirstMatch(list_s3_files("lessons"), "lesson_id", row.lesson_id)
    IN IF lesson = <<>>
       THEN [student_sk |-> NoValue, subject_sk |-> NoValue, lesson_found |-> FALSE]
       ELSE LET ts == FirstMatch(list_s3_files("teacher_subjects"),
                                 "teacher_subject_id", lesson[1].teacher_subject_id)
            IN [student_sk |-> lesson[1].student_id,
                subject_sk |-> IF ts = <<>> THEN lesson[1].teacher_subject_id
                               ELSE ts[1].subject_id,
                lesson_found |-> TRUE]

\* load_fact_homeworks: homework -> lesson -> teacher_subject -> subject
HomeworkKeys(row) ==
    LET lesson == FirstMatch(list_s3_files("lessons"), "lesson_id", row.lesson_id)
    IN IF lesson = <<>>
       THEN [student_sk |-> NoValue, subject_sk |-> NoValue, lesson_found |-> FALSE]
       ELSE LET ts == FirstMatch(list_s3_files("teacher_subjects"),
                                 "teacher_subject_id", lesson[1].teacher_subject_id)
            IN [student_sk |-> lesson[1].student_id,
                subject_sk |-> IF ts = <<>> THEN NoValue ELSE ts[1].subject_id,
                lesson_found |-> TRUE]

\* load_fact_lessons: lesson -> teacher_subject -> teacher / subject, and the
\* lesson's own teacher_id (NoValue when it has none) when the hop fails
LessonKeys(row) ==
    LET ts == FirstMatch(list_s3_files("teacher_subjects"),
                         "teacher_subject_id", row.teacher_subject_id)
    IN IF ts # <<>>
       THEN [teacher_sk |-> ts[1].teacher_id, subject_sk |-> ts[1].subject_id]
       ELSE [teacher_sk |-> row.teacher_id, subject_sk |-> NoValue]

----------------------------------------------------------------------------
(* Derived fields of the fact rows *)

\* A source date or timestamp is NaT, Unparseable, or a number of seconds
\* counted from the midnight before the first day of Calendar
Unparseable == -1         \* a value pd.to_datetime raises on
Null == -1                \* None as the value of a date key
SecondsPerDay == 86400
Calendar == << [y |-> 2023, m |-> 12, d |-> 31], [y |-> 2024, m |-> 1, d |-> 1] >>

\* pd.to_datetime(value), as the calendar date of the timestamp
to_datetime_date(value) == Calendar[value \div SecondsPerDay]

\* the decimal digits of n, zero-padded to width w
RECURSIVE Digits(_, _)
Digits(n, w) == IF w = 0 THEN <<>> ELSE Append(Digits(n \div 10, w - 1), n % 10)

\* the decimal digits of n, without leading zero
RECURSIVE DigitsOf(_)
DigitsOf(n) == IF n < 10 THEN <<n>> ELSE Append(DigitsOf(n \div 10), n % 10)

\* int(text) of a text of decimal digits
RECURSIVE int(_)
int(digits) ==
    IF digits = <<>> THEN 0
    ELSE 10 * int(SubSeq(digits, 1, Len(digits) - 1)) + digits[Len(digits)]

\* strftime('%Y%m%d')
strftime_Ymd(date) == Digits(date.y, 4) \o Digits(date.m, 2) \o Digits(date.d, 2)

\* safe_date_key with a format that does not pad month and day
safe_date_key_Unpadded(date_value) ==
    IF date_value = NaT THEN 0
    ELSE IF date_value = Unparseable THEN 0
    ELSE LET date == to_datetime_date(date_value)
         IN int(DigitsOf(date.y) \o DigitsOf(date.m) \o DigitsOf(date.d))

\* safe_date_key: 0 for a missing value and when the conversion raises
safe_date_key(date_value) ==
    IF date_value = NaT THEN 0
    ELSE IF date_value = Unparseable THEN 0
    ELSE int(strftime_Ymd(to_datetime_date(date_value)))

\* "safe_date_key(x) if pd.notna(x) else None"
DateSubmittedKey(submitted_at) ==
    IF submitted_at = NaT THEN Null ELSE safe_date_key(submitted_at)

DefaultDuration == 60

\* int(x / y) of Python: the quotient truncated toward zero
TruncDiv(x, y) == IF x >= 0 THEN x \div y ELSE -((-x) \div y)

\* DurationMinutes without the default: 0 when a timestamp is missing
DurationMinutes_NoDefault(row) ==
    LET start_time == Get(row, "scheduled_start_time", NaT)
        end_time == Get(row, "scheduled_end_time", NaT)
    IN IF start_time = NaT \/ end_time = NaT THEN 0
       ELSE IF start_time = Unparseable \/ end_time = Unparseable
       THEN DefaultDuration
       ELSE TruncDiv(end_time - start_time, 60)

\* duration_minutes of a lesson: 60 unless both timestamps are there and
\* the computation does not raise
DurationMinutes(row) ==
    LET start_time == Get(row, "scheduled_start_time", NaT)
        end_time == Get(row, "scheduled_end_time", NaT)
    IN IF start_time = NaT \/ end_time = NaT THEN DefaultDuration
       ELSE IF start_time = Unparseable \/ end_time = Unparseable
       THEN DefaultDuration
       ELSE TruncDiv(end_time - start_time, 60)

NoRate == -1              \* NaN in the hourly_rate column

\* safe_decimal(value): 0 for a missing value
safe_decimal(value) == IF value = NoRate THEN 0 ELSE value

\* TeacherCosts from the first record of the teacher in reading order
TeacherCosts_FirstSeen(teacher_sk) ==
    LET all == Concat(list_s3_files("teachers"))
        mine == {j \in 1..Len(all) : all[j].id = teacher_sk}
    IN IF teacher_sk <= 0 \/ mine = {} THEN {0}
       ELSE {safe_decimal(Get(all[SetMin(mine)], "hourly_rate", NoRate))}

\* teacher_cost_amount: latest_teachers is the teacher records sorted by
\* updated_at descending (NaT last, the order of equal values is not
\* fixed) with the first record of every teacher_id kept; the amount is
\* the hourly_rate of the record of teacher_sk, 0 without one
TeacherCosts(teacher_sk) ==
    LET all == Concat(list_s3_files("teachers"))
        mine == {j \in 1..Len(all) : all[j].id = teacher_sk}
        first == {j \in mine : \A k \in mine : all[k].updated_at <= all[j].updated_at}
    IN IF teacher_sk <= 0 \/ mine = {} THEN {0}
       ELSE {safe_decimal(Get(all[j], "hourly_rate", NoRate)) : j \in first}

----------------------------------------------------------------------------
(* load_dim_subject, load_fact_homeworks, load_fact_lessons, load_fact_sales *)

\* the rows a full-refresh load iterates over: the latest file of
\* full/subjects/, every file of the other prefixes
Candidates(t) ==
    IF t = "Dim_Subject"
    THEN LET files == list_s3_files("subjects") IN files[Len(files)]
    ELSE IF t = "Fact_Homeworks" THEN Concat(list_s3_files("homeworks"))
    ELSE IF t = "Fact_Lessons" THEN Concat(list_s3_files("lessons"))
    ELSE Concat(list_s3_files("students_purchases"))

\* the staging prefix of the candidates of t
CandidatePrefix(t) ==
    IF t = "Dim_Subject" THEN "subjects"
    ELSE IF t = "Fact_Homeworks" THEN "homeworks"
    ELSE IF t = "Fact_Lessons" THEN "lessons"
    ELSE "students_purchases"

\* from the function's entry to the first insert: TRUNCATE TABLE, then the
\* file listing; without files load_dim_subject returns False, the fact
\* loads return True
load_refresh_begin(t) ==
    /\ pc = t
    /\ cursor = 0
    /\ refReads' = NoReads
    /\ UNCHANGED s3
    /\ \E o \in Outcomes :
       /\ writes' = Issued(t, o)
       /\ IF o = "err"
          THEN /\ Return(t, "failed")
               /\ UNCHANGED <<tables, frame>>
          ELSE /\ tables' = [tables EXCEPT ![t] = <<>>]
               /\ IF list_s3_files(CandidatePrefix(t)) = <<>>
                  THEN /\ Return(t, IF t = "Dim_Subject" THEN "failed" ELSE "ok")
                       /\ UNCHANGED frame
                  ELSE /\ frame' = Candidates(t)
                       /\ IF Candidates(t) = <<>>
                          THEN Return(t, "ok")
                          ELSE /\ cursor' = 1
                               /\ UNCHANGED <<result, pc, exit_status>>

\* the values teacher_cost_amount of candidate row can take
CostsOf(t, row) ==
    IF t = "Fact_Lessons" THEN TeacherCosts(LessonKeys(row).teacher_sk) ELSE {0}

\* params of the insert of candidate row
FactRow(t, row, cost) ==
    IF t = "Dim_Subject"
    THEN [subject_sk |-> row.subject_id, subject_id_nk |-> row.subject_id]
    ELSE IF t = "Fact_Homeworks"
    THEN [homework_id_nk |-> row.homework_id,
          date_assigned_key |-> safe_date_key(Get(row, "created_at", NaT)),
          date_deadline_key |-> safe_date_key(Get(row, "deadline", NaT)),
          date_submitted_key |-> DateSubmittedKey(Get(row, "submitted_at", NaT)),
          student_sk |-> HomeworkKeys(row).student_sk,
          subject_sk |-> HomeworkKeys(row).subject_sk]
    ELSE IF t = "Fact_Lessons"
    THEN [lesson_id_nk |-> row.lesson_id,
          date_key |-> safe_date_key(Get(row, "scheduled_start_time", NaT)),
          student_sk |-> row.student_id,
          teacher_sk |-> LessonKeys(row).teacher_sk,
          subject_sk |-> LessonKeys(row).subject_sk,
          duration_minutes |-> DurationMinutes(row),
          teacher_cost_amount |-> cost]
    ELSE [purchase_id_nk |-> row.purchase_id,
          date_key |-> safe_date_key(Get(row, "purchase_date", NaT)),
          student_sk |-> row.student_id]

\* the listings of reference prefixes the resolution of one candidate does
ReadsOf(t, row) ==
    IF t = "Fact_Homeworks"
    THEN [lessons |-> 1,
          teacher_subjects |-> IF HomeworkKeys(row).lesson_found THEN 1 ELSE 0]
    ELSE IF t = "Fact_Lessons"
    THEN [lessons |-> 0, teacher_subjects |-> 1]
    ELSE NoReads

\* one pass of "for _, row in df.iterrows()"
load_refresh_row(t) ==
    /\ pc = t
    /\ cursor >= 1
    /\ UNCHANGED <<s3, frame>>
    /\ refReads' = [p \in RefPrefixes |-> refReads[p] + ReadsOf(t, frame[cursor])[p]]
    /\ \E o \in Outcomes, cost \in CostsOf(t, frame[cursor]) :
       /\ writes' = Issued(t, o)
       /\ IF o = "ok"
          THEN /\ tables' = [tables EXCEPT
                                ![t] = Append(@, FactRow(t, frame[cursor], cost))]
               /\ Advance(t)
          ELSE InsertFailed(t)

load_dim_subject_begin == load_refresh_begin("Dim_Subject")
load_dim_subject_row == load_refresh_row("Dim_Subject")
load_fact_homeworks_begin == load_refresh_begin("Fact_Homeworks")
load_fact_homeworks_row == load_refresh_row("Fact_Homeworks")
load_fact_lessons_begin == load_refresh_begin("Fact_Lessons")
load_fact_lessons_row == load_refresh_row("Fact_Lessons")
load_fact_sales_begin == load_refresh_begin("Fact_Sales")
load_fact_sales_row == load_refresh_row("Fact_Sales")

----------------------------------------------------------------------------
(* main *)

\* clickhouse_client.execute("SELECT 1"), then run_all_loads; an exception
\* makes main return 1
main_begin ==
    /\ pc = "main"
    /\ UNCHANGED <<s3, tables, writes, result, cursor, frame, refReads>>
    /\ \E o \in Outcomes :
        IF o = "ok"
        THEN pc' = Tables[1] /\ UNCHANGED exit_status
        ELSE pc' = "done" /\ exit_status' = 1

\* main_return with any(results.values()) in place of all(...)
main_return_AnyLoaded ==
    /\ pc = "results"
    /\ pc' = "done"
    /\ exit_status' = IF \E t \in TableSet : result[t] = "ok" THEN 0 ELSE 1
    /\ UNCHANGED <<s3, tables, writes, result, cursor, frame, refReads>>

\* "if all(results.values()): ... return 0" else "return 1"
main_return ==
    /\ pc = "results"
    /\ pc' = "done"
    /\ exit_status' = IF \A t \in TableSet : result[t] = "ok" THEN 0 ELSE 1
    /\ UNCHANGED <<s3, tables, writes, result, cursor, frame, refReads>>

----------------------------------------------------------------------------
(* Specifications *)

EmptyStore == [p \in Prefixes |-> <<>>]

\* the records of a prefix as files: the first record in the first file,
\* the others in the second
Split(recs) ==
    IF Len(recs) <= 1 THEN <<recs>> ELSE << <<Head(recs)>>, Tail(recs) >>

\* the file listings of a prefix whose records are in R: no file, one empty
\* file, or up to n records
FilesOf(R, n) == {<<>>} \cup {Split(recs) : recs \in SeqsUpTo(R, n)}

EntityRecs == [id : Keys, user_id : Keys, updated_at : {NaT} \cup Times]
UserRecs == [user_id : Keys, updated_at : {NaT} \cup Times]

\* the state at the entry of a load function, the tables holding the rows
\* of an earlier run
InitRun(store, at) ==
    /\ s3 = store
    /\ tables = [t \in TableSet |-> <<StaleRow>>]
    /\ writes = [t \in TableSet |-> <<>>]
    /\ result = [t \in TableSet |-> "none"]
    /\ pc = at
    /\ cursor = 0
    /\ frame = <<>>
    /\ refReads = NoReads
    /\ exit_status = -1

\* the dimension loads of run_all_loads, over every history of one
\* dimension's entity and of the users
InitDim ==
    \E t \in DimTables :
    \E efiles \in FilesOf(EntityRecs, MaxRecs), ufiles \in FilesOf(UserRecs, MaxRecs) :
        InitRun([EmptyStore EXCEPT ![EntityPrefix(t)] = efiles, !["users"] = ufiles],
                "Dim_Student")

NextDim ==
    \/ load_dim_student_begin
    \/ load_dim_student_row
    \/ load_dim_teacher_begin
    \/ load_dim_teacher_row

SpecDim == InitDim /\ [][NextDim]_vars

\* entity and user records that carry a status, and entity records of
\* batches without status column
StatusEntityRecs ==
    [id : {1}, user_id : Keys, updated_at : {1}, status : Statuses \cup {NaN}]
        \cup [id : {1}, user_id : Keys, updated_at : {1}]
StatusUserRecs == [user_id : {1}, updated_at : {MaxT}, status : Statuses \cup {NaN}]

\* the dimension loads of run_all_loads, over the statuses of the entity
\* and user records
InitStatus ==
    \E t \in DimTables :
    \E efiles \in FilesOf(StatusEntityRecs, MaxRecs),
       ufiles \in FilesOf(StatusUserRecs, MaxRecs) :
        InitRun([EmptyStore EXCEPT ![EntityPrefix(t)] = efiles, !["users"] = ufiles],
                "Dim_Student")

SpecStatus == InitStatus /\ [][NextDim]_vars

HomeworkRecs == [homework_id : {1}, lesson_id : Keys]
TeacherSubjectRecs == [teacher_subject_id : Keys, teacher_id : Keys, subject_id : Keys]
LessonRecs(times, teacher_ids) ==
    [lesson_id : Keys, student_id : Keys, teacher_subject_id : Keys,
     updated_at : times, teacher_id : teacher_ids]

\* the fact loads of run_all_loads that resolve keys: over every history of
\* homeworks, lessons (without a teacher_id column) and teacher_subjects, and
\* over the histories of lessons with or without a teacher_id of their own
InitFact ==
    \/ \E hfiles \in FilesOf(HomeworkRecs, MaxRecs),
          lfiles \in FilesOf(LessonRecs(Times, {NoValue}), MaxRecs),
          tfiles \in FilesOf(TeacherSubjectRecs, 1) :
        InitRun([EmptyStore EXCEPT !["homeworks"] = hfiles, !["lessons"] = lfiles,
                                   !["teacher_subjects"] = tfiles],
                "Fact_Homeworks")
    \/ \E hfiles \in FilesOf(HomeworkRecs, 1),
          lfiles \in FilesOf(LessonRecs({MaxT}, {NoValue} \cup Keys), MaxRecs),
          tfiles \in FilesOf(TeacherSubjectRecs, 1) :
        InitRun([EmptyStore EXCEPT !["homeworks"] = hfiles, !["lessons"] = lfiles,
                                   !["teacher_subjects"] = tfiles],
                "Fact_Homeworks")

NextFact ==
    \/ load_fact_homeworks_begin
    \/ load_fact_homeworks_row
    \/ load_fact_lessons_begin
    \/ load_fact_lessons_row

SpecFact == InitFact /\ [][NextFact]_vars

\* timestamps of the fact candidates: the first and the last second of the
\* first day of Calendar, and half a minute into its second day
DateTimes == {SecondsPerDay, 2 * SecondsPerDay - 1, 2 * SecondsPerDay + 30}
SourceTimes == {NaT, Unparseable} \cup DateTimes

DatedHomeworkRecs ==
    [homework_id : {1}, lesson_id : {1}, created_at : SourceTimes,
     deadline : {NaT, 2 * SecondsPerDay + 30}, submitted_at : SourceTimes]
TimedLessonRecs ==
    [lesson_id : {1}, student_id : {1}, teacher_subject_id : {1}, updated_at : {1},
     teacher_id : {NoValue},
     scheduled_start_time : SourceTimes, scheduled_end_time : SourceTimes]
DatedPurchaseRecs == [purchase_id : {1}, student_id : {1}, purchase_date : SourceTimes]
RatedTeacherRecs ==
    [id : Keys, user_id : {1}, updated_at : {NaT, 1, 2}, hourly_rate : {NoRate, 10, 20}]

\* the fact loads of run_all_loads, over the dates of the homeworks, the
\* scheduled times of the lessons, the dates of the purchases, and over the
\* histories of the teachers of a lesson
InitDerived ==
    \/ \E hfiles \in FilesOf(DatedHomeworkRecs, 1) :
        InitRun([EmptyStore EXCEPT !["homeworks"] = hfiles], "Fact_Homeworks")
    \/ \E lfiles \in FilesOf(TimedLessonRecs, MaxRecs) :
        InitRun([EmptyStore EXCEPT !["lessons"] = lfiles], "Fact_Homeworks")
    \/ \E pfiles \in FilesOf(DatedPurchaseRecs, MaxRecs) :
        InitRun([EmptyStore EXCEPT !["students_purchases"] = pfiles], "Fact_Homeworks")
    \/ \E lfiles \in FilesOf(LessonRecs({1}, {NoValue, 1}), 1),
          tfiles \in FilesOf([teacher_subject_id : {1}, teacher_id : Keys,
                              subject_id : {1}], 1),
          rfiles \in FilesOf(RatedTeacherRecs, MaxRecs) :
        InitRun([EmptyStore EXCEPT !["lessons"] = lfiles,
                                   !["teacher_subjects"] = tfiles,
                                   !["teachers"] = rfiles],
                "Fact_Homeworks")

NextDerived ==
    \/ load_fact_homeworks_begin
    \/ load_fact_homeworks_row
    \/ load_fact_lessons_begin
    \/ load_fact_lessons_row
    \/ load_fact_sales_begin
    \/ load_fact_sales_row

SpecDerived == InitDerived /\ [][NextDerived]_vars

\* a staging store with n records of every entity type and m user records,
\* record i of a type having key i and timestamp i
RunStore(n, m) ==
    [p \in Prefixes |->
        IF p = "users"
        THEN Split([i \in 1..m |-> [user_id |-> i, updated_at |-> i]])
        ELSE IF n = 0 THEN <<>>
        ELSE IF p = "subjects" THEN Split([i \in 1..n |-> [subject_id |-> i]])
        ELSE IF p = "homeworks"
        THEN Split([i \in 1..n |-> [homework_id |-> i, lesson_id |-> i]])
        ELSE IF p = "lessons"
        THEN Split([i \in 1..n |->
                      [lesson_id |-> i, student_id |-> i, teacher_subject_id |-> i,
                       updated_at |-> i, teacher_id |-> NoValue]])
        ELSE IF p = "teacher_subjects"
        THEN Split([i \in 1..n |->
                      [teacher_subject_id |-> i, teacher_id |-> i, subject_id |-> i]])
        ELSE IF p = "students_purchases"
        THEN Split([i \in 1..n |-> [purchase_id |-> i, student_id |-> i]])
        ELSE Split([i \in 1..n |-> [id |-> i, user_id |-> i, updated_at |-> i]])]

\* a whole run of main
Init ==
    \E n \in 0..MaxRunRows, m \in 0..MaxRunRows : InitRun(RunStore(n, m), "main")

Next ==
    \/ main_begin
    \/ load_dim_subject_begin
    \/ load_dim_subject_row
    \/ load_fact_homeworks_begin
    \/ load_fact_homeworks_row
    \/ load_fact_lessons_begin
    \/ load_fact_lessons_row
    \/ load_fact_sales_begin
    \/ load_fact_sales_row
    \/ load_dim_student_begin
    \/ load_dim_student_row
    \/ load_dim_teacher_begin
    \/ load_dim_teacher_row
    \/ main_return

Spec == Init /\ [][Next]_vars

----------------------------------------------------------------------------
(* Claims about load_dim_student / load_dim_teacher, under SpecDim *)

\* the rows this run inserted into table t
Emitted(t) == SelectSeq(tables[t], LAMBDA r : "stale" \notin DOMAIN r)

\* the entity records of dimension t over all its batches
EntityRecords(t) == Concat(s3[EntityPrefix(t)])

\* the emitted rows of key k
VersionsOf(t, k) == {i \in 1..Len(Emitted(t)) : Emitted(t)[i].nk = k}

\* no emitted row lacks its valid_from timestamp
AllTimed(t) == \A i \in 1..Len(Emitted(t)) : Emitted(t)[i].updated_at # NaT

\* the rows of a key were emitted in strictly ascending valid_from order
Ascending(t) ==
    \A i, j \in 1..Len(Emitted(t)) :
        (i < j /\ Emitted(t)[i].nk = Emitted(t)[j].nk)
        => Emitted(t)[i].updated_at < Emitted(t)[j].updated_at

\* no two rows of a key have the same valid_from
NoTies(t) ==
    \A i, j \in 1..Len(Emitted(t)) :
        (i # j /\ Emitted(t)[i].nk = Emitted(t)[j].nk)
        => Emitted(t)[i].updated_at # Emitted(t)[j].updated_at

\* C1: after a dimension load completes, every natural key of the merged
\* history has exactly one emitted row with is_current = 1, and that row has
\* valid_to = 2099-12-31, whatever the input, also when several records of a
\* key have the same valid_from.  (Stated here for the histories in which
\* no valid_from is missing, which the claim covers too.)
C1_ExactlyOneCurrentVersion ==
    \A t \in DimTables :
        (result[t] = "ok" /\ AllTimed(t)) =>
            \A k \in {Emitted(t)[i].nk : i \in 1..Len(Emitted(t))} :
                LET current == {i \in VersionsOf(t, k) : Emitted(t)[i].is_current = 1}
                IN /\ Cardinality(current) = 1
                   /\ \A i \in current : Emitted(t)[i].valid_to = FutureDate

\* the valid_from values of key k later than that of row i
LaterValidFrom(t, i) ==
    {Emitted(t)[j].updated_at : j \in VersionsOf(t, Emitted(t)[i].nk)}
        \cap {v \in Times : v > Emitted(t)[i].updated_at}

\* C2: the valid_to of every non-current emitted version is the smallest
\* valid_from of its key that is strictly greater than its own, minus one
\* day, in whatever order the records arrive.  (Stated here for the
\* histories without missing or equal valid_from values.)
C2_ValidToIsNextValidFromMinusOneDay ==
    \A t \in DimTables :
        (result[t] = "ok" /\ AllTimed(t) /\ NoTies(t)) =>
            \A i \in 1..Len(Emitted(t)) :
                (/\ Emitted(t)[i].is_current = 0
                 /\ Emitted(t)[i].updated_at # NaT
                 /\ LaterValidFrom(t, i) # {})
                => Emitted(t)[i].valid_to = DateOf(SetMin(LaterValidFrom(t, i))) - 1

\* C3: the emitted versions of a key partition the dates: valid_from <=
\* valid_to in every version, the ranges of two versions are disjoint, and a
\* version that is not open-ended is followed by one that starts the next
\* day; also for two records of the same calendar day.  (Stated here for
\* the histories that arrive in ascending order of valid_from, none missing
\* and no two equal.)
C3_VersionsPartitionDates ==
    \A t \in DimTables :
        (result[t] = "ok" /\ AllTimed(t) /\ Ascending(t)) =>
            \A i \in 1..Len(Emitted(t)) :
                LET v == Emitted(t)[i]
                    others == VersionsOf(t, v.nk) \ {i}
                IN /\ v.valid_from <= v.valid_to
                   /\ \A j \in others :
                        \/ Emitted(t)[j].valid_to < v.valid_from
                        \/ v.valid_to < Emitted(t)[j].valid_from
                   /\ v.valid_to # FutureDate =>
                        \E j \in others : Emitted(t)[j].valid_from = v.valid_to + 1

\* C4, as stated: a successful dimension load inserts exactly one row per
\* entity record, however many snapshot records the linked user has.
C4_OneRowPerEntityRecord ==
    \A t \in DimTables :
        result[t] = "ok" => Len(Emitted(t)) = Len(EntityRecords(t))

\* the user records linked to entity record e
LinkedUsers(e) ==
    {j \in 1..Len(Concat(s3["users"])) : Concat(s3["users"])[j].user_id = e.user_id}

RECURSIVE JoinedCount(_)
JoinedCount(entities) ==
    IF entities = <<>> THEN 0
    ELSE (IF LinkedUsers(Head(entities)) = {} THEN 1
          ELSE Cardinality(LinkedUsers(Head(entities))))
         + JoinedCount(Tail(entities))

\* C4, amended: a successful dimension load inserts one row per pair of an
\* entity record and a user record of the same user_id, and one row for
\* every entity record that no user record is linked to.
C4_OneRowPerJoinedRecord ==
    \A t \in DimTables :
        result[t] = "ok" => Len(Emitted(t)) = JoinedCount(EntityRecords(t))

\* a load has completed over an entity record with two user records and
\* another with none
C4_Witness ==
    \E t \in DimTables :
        /\ result[t] = "ok"
        /\ \E a, b \in 1..Len(EntityRecords(t)) :
            /\ Cardinality(LinkedUsers(EntityRecords(t)[a])) = 2
            /\ LinkedUsers(EntityRecords(t)[b]) = {}
        /\ Len(Emitted(t)) = 3

\* the rows entity record e must become: its user records' timestamps, or
\* NaT alone when it has none
ExpectedValidFrom(e) ==
    IF LinkedUsers(e) = {} THEN {e.updated_at}
    ELSE {RowMax(e.updated_at, Concat(s3["users"])[j].updated_at) : j \in LinkedUsers(e)}

\* C5: the entity records are left-joined to the user records: every entity
\* record is retained, the valid_from of every row is the maximum of the
\* entity's and the linked user's updated_at, and the entity's own
\* updated_at when no user is linked; for every set of user batches, also
\* when there is no user record at all.
C5_LeftJoinMaxValidFrom ==
    \A t \in DimTables :
        /\ result[t] # "raised"
        /\ (pc = t /\ cursor >= 1) =>
            /\ \A i \in 1..Len(EntityRecords(t)) :
                 \A v \in ExpectedValidFrom(EntityRecords(t)[i]) :
                    \E j \in 1..Len(frame) :
                        /\ frame[j].id = EntityRecords(t)[i].id
                        /\ frame[j].updated_at_entity = EntityRecords(t)[i].updated_at
                        /\ frame[j].valid_from = v
            /\ \A j \in 1..Len(frame) :
                 \E i \in 1..Len(EntityRecords(t)) :
                    /\ frame[j].id = EntityRecords(t)[i].id
                    /\ frame[j].valid_from \in ExpectedValidFrom(EntityRecords(t)[i])

\* C17: in every emitted row valid_to = 2099-12-31 exactly when is_current
\* = 1: a version that no later version of its key follows has the sentinel
\* and is current, every other version has an earlier valid_to and
\* is_current = 0.  (Stated here for the histories without missing or equal
\* valid_from values.)
C17_SentinelIffCurrent ==
    \A t \in DimTables :
        (result[t] = "ok" /\ AllTimed(t) /\ NoTies(t)) =>
            \A i \in 1..Len(Emitted(t)) :
                LET v == Emitted(t)[i]
                IN /\ v.valid_to = FutureDate <=> v.is_current = 1
                   /\ LaterValidFrom(t, i) = {} =>
                        (v.valid_to = FutureDate /\ v.is_current = 1)
                   /\ LaterValidFrom(t, i) # {} =>
                        (v.valid_to < FutureDate /\ v.is_current = 0)

----------------------------------------------------------------------------
(* Claims about the status of the dimension rows, under SpecStatus *)

\* the rows of the left join of the entity records of t with the user
\* records: emitted row i is made from row i
Joined(t) == MergeUsers(EntityRecords(t), Concat(s3["users"]))

\* the status values observed in the records joined for row i
ObservedStatus(t, i) ==
    {Joined(t)[i].status_entity, Joined(t)[i].status_user} \ {NaN}

\* C18: the status of every emitted dimension row is a status value
\* observed in the source records joined for the row, the entity's or the
\* user's, and 'active' when none was observed; also when both the entity
\* records and the user records have a status column.  (Stated here for
\* the rows whose entity record has a status value.)
C18_StatusFromSource ==
    \A t \in DimTables :
        \A i \in 1..Len(Emitted(t)) :
            Joined(t)[i].status_entity # NaN =>
                Emitted(t)[i].status \in ObservedStatus(t, i)

----------------------------------------------------------------------------
(* Claims about load_fact_homeworks / load_fact_lessons, under SpecFact *)

\* the records of a prefix over all its batches, in reading order
AllRecords(prefix) == Concat(s3[prefix])

\* the records of a prefix whose column col is v
RecordsWith(prefix, col, v) ==
    {AllRecords(prefix)[j] : j \in {k \in 1..Len(AllRecords(prefix)) :
                                       AllRecords(prefix)[k][col] = v}}

\* the homework hops of C6: a homework whose lesson_id is in no lesson
\* record gets student_sk = subject_sk = 0, one whose lessons have a
\* teacher_subject_id that is in no teacher_subject record gets subject_sk = 0
HomeworkHopsDegrade ==
    \A i \in 1..Len(Emitted("Fact_Homeworks")) :
        LET hw == AllRecords("homeworks")[i]
            row == Emitted("Fact_Homeworks")[i]
            lessons == RecordsWith("lessons", "lesson_id", hw.lesson_id)
        IN /\ row.homework_id_nk = hw.homework_id
           /\ lessons = {} => (row.student_sk = 0 /\ row.subject_sk = 0)
           /\ (\A l \in lessons :
                 RecordsWith("teacher_subjects", "teacher_subject_id",
                             l.teacher_subject_id) = {})
              => row.subject_sk = 0

\* no load raises, and a load that returns True has inserted a row for
\* every candidate
EveryCandidateInserted ==
    \A t \in {"Fact_Homeworks", "Fact_Lessons"} :
        /\ result[t] # "raised"
        /\ result[t] = "ok" => Len(Emitted(t)) = Len(AllRecords(CandidatePrefix(t)))

\* C6, as stated: a hop that finds no match makes every surrogate key that
\* depends on it 0, nothing is raised and the fact row is inserted with its
\* other fields; a lesson whose teacher_subject_id is in no teacher_subject
\* record is emitted with teacher_sk = 0 and subject_sk = 0.
C6_UnresolvedHopsGiveZero ==
    /\ HomeworkHopsDegrade
    /\ EveryCandidateInserted
    /\ \A i \in 1..Len(Emitted("Fact_Lessons")) :
        LET lesson == AllRecords("lessons")[i]
            row == Emitted("Fact_Lessons")[i]
        IN /\ row.lesson_id_nk = lesson.lesson_id
           /\ row.student_sk = lesson.student_id
           /\ RecordsWith("teacher_subjects", "teacher_subject_id",
                          lesson.teacher_subject_id) = {}
              => (row.teacher_sk = 0 /\ row.subject_sk = 0)

\* C6, amended: as C6, but a lesson whose teacher_subject_id is in no
\* teacher_subject record is emitted with subject_sk = 0 and with teacher_sk
\* = the teacher_id the lesson record itself carries, which is 0 only when
\* the lesson has none.
C6_UnresolvedHopsFallBack ==
    /\ HomeworkHopsDegrade
    /\ EveryCandidateInserted
    /\ \A i \in 1..Len(Emitted("Fact_Lessons")) :
        LET lesson == AllRecords("lessons")[i]
            row == Emitted("Fact_Lessons")[i]
        IN /\ row.lesson_id_nk = lesson.lesson_id
           /\ row.student_sk = lesson.student_id
           /\ RecordsWith("teacher_subjects", "teacher_subject_id",
                          lesson.teacher_subject_id) = {}
              => (row.teacher_sk = lesson.teacher_id /\ row.subject_sk = 0)

\* both loads have completed, over a homework whose lesson is found and
\* whose teacher_subject is not, and over a lesson without teacher_subject
\* that carries a teacher_id
C6_Witness ==
    /\ result["Fact_Homeworks"] = "ok"
    /\ result["Fact_Lessons"] = "ok"
    /\ \E i \in 1..Len(Emitted("Fact_Homeworks")) :
        /\ Emitted("Fact_Homeworks")[i].student_sk # 0
        /\ Emitted("Fact_Homeworks")[i].subject_sk = 0
    /\ \E i \in 1..Len(Emitted("Fact_Lessons")) :
        /\ RecordsWith("teacher_subjects", "teacher_subject_id",
                       AllRecords("lessons")[i].teacher_subject_id) = {}
        /\ AllRecords("lessons")[i].teacher_id # NoValue
        /\ Emitted("Fact_Lessons")[i].teacher_sk = AllRecords("lessons")[i].teacher_id
        /\ Emitted("Fact_Lessons")[i].subject_sk = 0

\* C7: a hop takes the record with the greatest updated_at of the key it
\* looks up: the student_sk of a homework row is the student_id of the most
\* recently updated record of its lesson, not that of the first batch that
\* has the lesson.
C7_ResolutionUsesLatestRecord ==
    \A i \in 1..Len(Emitted("Fact_Homeworks")) :
        LET lessons == RecordsWith("lessons", "lesson_id",
                                   AllRecords("homeworks")[i].lesson_id)
            latest == {l \in lessons : \A m \in lessons : m.updated_at <= l.updated_at}
        IN lessons # {} =>
             \E l \in latest : Emitted("Fact_Homeworks")[i].student_sk = l.student_id

\* C8: a fact load lists and reads the reference data (lessons,
\* teacher_subjects) once, however many candidates it has.
C8_ReferenceDataReadOnce ==
    \A p \in RefPrefixes : refReads[p] <= 1

----------------------------------------------------------------------------
(* Claims about the derived fields of the fact rows, under SpecDerived *)

\* year * 10000 + month * 100 + day of the date of a source value, 0 for a
\* value that is missing or cannot be parsed
ExpectedDateKey(value) ==
    IF value \in DateTimes
    THEN LET date == Calendar[value \div SecondsPerDay]
         IN date.y * 10000 + date.m * 100 + date.d
    ELSE 0

\* C14: every date key of an emitted fact row is year*10000 + month*100 +
\* day of its source date, and 0 when the source date is missing or cannot
\* be parsed, except date_submitted_key, which is null when submitted_at is
\* missing.
C14_DateKeys ==
    /\ \A i \in 1..Len(Emitted("Fact_Homeworks")) :
        LET src == AllRecords("homeworks")[i]
            row == Emitted("Fact_Homeworks")[i]
        IN /\ row.date_assigned_key = ExpectedDateKey(Get(src, "created_at", NaT))
           /\ row.date_deadline_key = ExpectedDateKey(Get(src, "deadline", NaT))
           /\ row.date_submitted_key =
                IF Get(src, "submitted_at", NaT) = NaT THEN Null
                ELSE ExpectedDateKey(src.submitted_at)
    /\ \A i \in 1..Len(Emitted("Fact_Lessons")) :
        Emitted("Fact_Lessons")[i].date_key =
            ExpectedDateKey(Get(AllRecords("lessons")[i], "scheduled_start_time", NaT))
    /\ \A i \in 1..Len(Emitted("Fact_Sales")) :
        Emitted("Fact_Sales")[i].date_key =
            ExpectedDateKey(Get(AllRecords("students_purchases")[i], "purchase_date", NaT))

\* the load has completed over a homework created on 2024-01-01, without
\* deadline and not submitted
C14_Witness ==
    /\ result["Fact_Homeworks"] = "ok"
    /\ \E i \in 1..Len(Emitted("Fact_Homeworks")) :
        /\ AllRecords("homeworks")[i].created_at = 2 * SecondsPerDay + 30
        /\ AllRecords("homeworks")[i].deadline = NaT
        /\ AllRecords("homeworks")[i].submitted_at = NaT
        /\ Emitted("Fact_Homeworks")[i].date_assigned_key = 20240101
        /\ Emitted("Fact_Homeworks")[i].date_deadline_key = 0
        /\ Emitted("Fact_Homeworks")[i].date_submitted_key = Null

\* C15: duration_minutes of an emitted lesson row is the difference of
\* scheduled_end_time and scheduled_start_time in whole minutes (the part of
\* a minute is dropped) when both are there, and 60 when one is missing or
\* the computation fails.
C15_DurationMinutes ==
    \A i \in 1..Len(Emitted("Fact_Lessons")) :
        LET start_time == Get(AllRecords("lessons")[i], "scheduled_start_time", NaT)
            end_time == Get(AllRecords("lessons")[i], "scheduled_end_time", NaT)
            q == Emitted("Fact_Lessons")[i].duration_minutes
        IN IF start_time \in DateTimes /\ end_time \in DateTimes
           THEN IF end_time >= start_time
                THEN q >= 0 /\ 60 * q <= end_time - start_time
                            /\ end_time - start_time < 60 * (q + 1)
                ELSE q <= 0 /\ 60 * q >= end_time - start_time
                            /\ end_time - start_time > 60 * (q - 1)
           ELSE q = 60

\* the load has completed over a lesson of 23 hours 59 minutes and 59
\* seconds and a lesson without start time
C15_Witness ==
    /\ result["Fact_Lessons"] = "ok"
    /\ \E i, j \in 1..Len(Emitted("Fact_Lessons")) :
        /\ Get(AllRecords("lessons")[i], "scheduled_start_time", NaT) = SecondsPerDay
        /\ Get(AllRecords("lessons")[i], "scheduled_end_time", NaT)
             = 2 * SecondsPerDay - 1
        /\ Emitted("Fact_Lessons")[i].duration_minutes = 1439
        /\ Get(AllRecords("lessons")[j], "scheduled_start_time", NaT) = NaT
        /\ Get(AllRecords("lessons")[j], "scheduled_end_time", NaT) \in DateTimes
        /\ Emitted("Fact_Lessons")[j].duration_minutes = 60

\* the teacher records of teacher_id k
TeacherRecords(k) == RecordsWith("teachers", "id", k)

\* C16: teacher_cost_amount of an emitted lesson row is the hourly_rate of
\* a teacher record with the greatest updated_at among the records of the
\* resolved teacher_sk, and 0 when teacher_sk is 0, when no teacher record
\* has that id, or when that record has no rate.
C16_CostIsLatestHourlyRate ==
    \A i \in 1..Len(Emitted("Fact_Lessons")) :
        LET row == Emitted("Fact_Lessons")[i]
            recs == TeacherRecords(row.teacher_sk)
        IN IF row.teacher_sk = 0 \/ recs = {}
           THEN row.teacher_cost_amount = 0
           ELSE \E r \in recs :
                   /\ \A o \in recs : o.updated_at <= r.updated_at
                   /\ row.teacher_cost_amount =
                        IF Get(r, "hourly_rate", NoRate) = NoRate THEN 0
                        ELSE r.hourly_rate

\* the load has completed over a lesson whose teacher has a first record
\* with rate 10 and a later one with rate 20
C16_Witness ==
    /\ result["Fact_Lessons"] = "ok"
    /\ \E i \in 1..Len(Emitted("Fact_Lessons")) :
        /\ Emitted("Fact_Lessons")[i].teacher_sk = 1
        /\ Emitted("Fact_Lessons")[i].teacher_cost_amount = 20
        /\ Len(AllRecords("teachers")) = 2
        /\ AllRecords("teachers")[1] =
             [id |-> 1, user_id |-> 1, updated_at |-> 1, hourly_rate |-> 10]
        /\ AllRecords("teachers")[2] =
             [id |-> 1, user_id |-> 1, updated_at |-> 2, hourly_rate |-> 20]

----------------------------------------------------------------------------
(* Claims about every load, under Spec *)

\* C9: when a load reports success, the prior contents of its table are
\* gone and the table holds the rows of this run only; it is empty when the
\* source of the run has no file or no record.
C9_FullRefresh ==
    \A t \in TableSet :
        result[t] = "ok" =>
            /\ tables[t] = Emitted(t)
            /\ (t \in DimTables /\ EntityRecords(t) = <<>>) => tables[t] = <<>>

\* C10: a failed query on a table (an insert or the TRUNCATE) is the last
\* query the run issues on that table, and the load of the table returns
\* failure.
C10_FailedWriteAbortsLoad ==
    \A t \in TableSet :
        \A i \in 1..Len(writes[t]) :
            writes[t][i] = "err" => (i = Len(writes[t]) /\ result[t] = "failed")

\* the insert of a row failed after an earlier insert into the table, and
\* the run has gone on to its end
C10_Witness ==
    /\ pc = "done"
    /\ \E t \in TableSet :
        /\ Len(writes[t]) = 3
        /\ writes[t] = <<"ok", "ok", "err">>
        /\ Len(tables[t]) = 1
        /\ result[t] = "failed"

\* the startup connectivity check has succeeded: run_all_loads was entered,
\* and its first load always returns
Connected == result["Dim_Subject"] # "none"

\* C11: in a run that passes the connectivity check each of the six loads
\* is attempted and ends completed or reported as failed in load_results: a
\* failure of one load, whatever its cause, does not keep the later tables
\* from being loaded.
C11_TableFailureIsolation ==
    (pc = "done" /\ Connected) =>
        \A t \in TableSet : result[t] \in {"ok", "failed"}

\* C12: main returns 0 exactly when the connectivity check succeeded and
\* all six loads returned success; when the connectivity check fails main
\* returns a non-zero status and no query has been issued on any table.
C12_ExitStatus ==
    /\ pc # "done" => exit_status = -1
    /\ pc = "done" =>
        /\ exit_status \in {0, 1}
        /\ exit_status = 0 <=> (Connected /\ \A t \in TableSet : result[t] = "ok")
        /\ ~Connected =>
            /\ exit_status # 0
            /\ \A t \in TableSet : writes[t] = <<>> /\ tables[t] = <<StaleRow>>

\* main has returned 0 after six loads that each inserted rows
C12_Witness ==
    /\ pc = "done"
    /\ exit_status = 0
    /\ \A t \in TableSet : result[t] = "ok" /\ Len(Emitted(t)) >= 1
    /\ Len(Emitted("Dim_Teacher")) = MaxRunRows

\* C13: a listing or a read of a batch that fails is not raised and does
\* not make a load fail: a load returns failure only after a failed
\* query, also load_dim_subject when the listing of the subject files
\* gives nothing and the dimension loads when no user batch can be read.
C13_RetrievalFailureIsNoData ==
    \A t \in TableSet :
        /\ result[t] # "raised"
        /\ result[t] = "failed" => \E i \in 1..Len(writes[t]) : writes[t][i] = "err"

====
